---- MODULE Spec2Model ----
(***************************************************************************)
(* Model of the wasp smart-contract execution core:                        *)
(*   - packages/sctransaction/properties.go : calcProperties               *)
(*   - plugins/runvm/plugin.go              : RunComputationsAsync/runTask *)
(*   - the older VM plugin (unnamed/part_000): RegisterProcessor,          *)
(*     getProcessor, RunComputationsAsync, runVM                           *)
(*   - packages/apilib/request.go           : CreateRequestTransaction     *)
(***************************************************************************)
EXTENDS Integers, Sequences, FiniteSets, TLC

VARIABLES
    tx,            \* properties.go: the transaction under analysis
    props,         \* properties.go: result of calcProperties(tx), or NotComputed
    daemonStopped, \* runvm/plugin.go: vmDaemon was shut down (shutdownSignal closed)
    workers,       \* runvm/plugin.go: names of vmDaemon's running background workers
    tasks,         \* runvm/plugin.go: the submitted *vm.VMTask objects and their runs
    processors,    \* VM plugin: program hashes present in the processors map
    regs,          \* VM plugin: the RegisterProcessor calls and their goroutines
    req            \* apilib/request.go: the CreateRequestTransaction call

propVars == <<tx, props>>

runVars == <<daemonStopped, workers, tasks>>

regVars == <<processors, regs>>

reqVars == <<req>>

vars == <<tx, props, daemonStopped, workers, tasks, processors, regs, req>>

(***************************************************************************)
(* Part 1.  packages/sctransaction/properties.go                           *)
(***************************************************************************)

\* Ledger addresses used in the bounded model.
Addresses == {"a1", "a2"}

\* The zero value of address.Address (an unset Properties field).
ZeroAddress == "a0"

\* balance.ColorNew: the sentinel colour of freshly minted tokens.
ColorNew == "new"

\* An already-assigned smart-contract colour.
ColorSC == "sc"

\* The zero value of balance.Color.
ZeroColor == "c0"

Colors == {ColorNew, ColorSC}

\* Largest amount of one colour in one output.
MaxAmount == 2

\* Largest number of request blocks in a transaction.
MaxReqBlocks == 2

NotComputed == [err |-> "not computed"]

\* No transaction is under analysis.
NoTransaction == [nil |-> TRUE]

\* CreateRequestTransaction was not called: no parameters, no step taken, no
\* call made to the node client or the publisher, nothing returned.
IdleRequest ==
    [pc |-> "idle", par |-> [nil |-> TRUE], calls |-> <<>>, steps |-> <<>>,
     tx |-> [nil |-> TRUE], err |-> "none"]

\* Sequences over S of length at most n.
SeqUpTo(S, n) == UNION {[1..k -> S] : k \in 0..n}

\* Sequences without repetition: the keys of an ordered map, in order.
IsInjective(s) == \A i, j \in DOMAIN s : s[i] = s[j] => i = j

\* tx.Transaction.Inputs(): an ordered map keyed by address; only the keys
\* matter to calcProperties.  A value transaction spends at least one input.
InputLists == {s \in SeqUpTo(Addresses, Cardinality(Addresses)) :
                  Len(s) >= 1 /\ IsInjective(s)}

\* One entry of tx.Outputs(): an address and its balances.  bals[c] is the
\* sum of the balances of colour c at the address; an entry with 0 for
\* both colours stands for an output that carries other colours only.
OutputEntries == [addr : Addresses, bals : [Colors -> 0..MaxAmount]]

\* tx.Outputs(): an ordered map keyed by address.
OutputLists == {s \in SeqUpTo(OutputEntries, Cardinality(Addresses)) :
                   \A i, j \in DOMAIN s : s[i].addr = s[j].addr => i = j}

\* tx.State(): no state block, or a state block of some colour.
NoStateBlock == "none"

StateBlocks == {NoStateBlock, ColorNew, ColorSC}

\* tx.Requests(): the target address of each request block, in order.
RequestLists == SeqUpTo(Addresses, MaxReqBlocks)

\* tx.Transaction.ID(): the content hash of the transaction.
TransactionID(t) == <<"txid", t.inputs, t.outputs, t.state, t.requests>>

\* (balance.Color)(tx.Transaction.ID())
ColorOfTx(t) == <<"color", TransactionID(t)>>

\* util.BalanceOfColor(bals, color)
BalanceOfColor(bals, color) == IF color \in DOMAIN bals THEN bals[color] ELSE 0

\* The zero Properties value created at the start of calcProperties.
EmptyProperties ==
    [sender |-> ZeroAddress, isState |-> FALSE, isOrigin |-> FALSE,
     stateAddress |-> ZeroAddress, stateColor |-> ZeroColor,
     numMintedTokensByAddr |-> <<>>, numMintedTokens |-> 0]

\* A buggy analyzeSender loop: keeps the last input address, never fails.
RECURSIVE SenderLoopNoCheck(_, _, _)
SenderLoopNoCheck(inputs, i, acc) ==
    IF i > Len(inputs) THEN acc
    ELSE SenderLoopNoCheck(inputs, i + 1,
                           [acc EXCEPT !.sender = inputs[i], !.senderFound = TRUE])

\* The ForEachAddress callback of analyzeSender applied to inputs[i..]:
\* acc = [sender, senderFound, err].
RECURSIVE SenderLoop(_, _, _)
SenderLoop(inputs, i, acc) ==
    IF i > Len(inputs) THEN acc
    ELSE IF acc.senderFound
         THEN [acc EXCEPT !.err = "MultipleSenders"]
         ELSE SenderLoop(inputs, i + 1,
                         [acc EXCEPT !.sender = inputs[i], !.senderFound = TRUE])

\* analyzeSender: [err, prop]
analyzeSender(prop, t) ==
    LET r == SenderLoop(t.inputs, 1,
                        [sender |-> prop.sender, senderFound |-> FALSE, err |-> "nil"])
    IN  [err |-> r.err, prop |-> [prop EXCEPT !.sender = r.sender]]

\* Sum of f over the set S.
RECURSIVE SumOver(_, _)
SumOver(f, S) ==
    IF S = {} THEN 0
    ELSE LET x == CHOOSE y \in S : TRUE IN f[x] + SumOver(f, S \ {x})

\* countMintedTokens: the per-address map has an entry only where v # 0.
countMintedTokens(prop, t) ==
    LET minted == {i \in DOMAIN t.outputs :
                      BalanceOfColor(t.outputs[i].bals, ColorNew) # 0}
        byAddr == [a \in {t.outputs[i].addr : i \in minted} |->
                      LET i == CHOOSE k \in minted : t.outputs[k].addr = a
                      IN  BalanceOfColor(t.outputs[i].bals, ColorNew)]
    IN  [prop EXCEPT !.numMintedTokensByAddr = byAddr,
                     !.numMintedTokens = SumOver(byAddr, DOMAIN byAddr)]

\* The Outputs().ForEach callback of analyzeStateBlock (non-origin branch)
\* applied to outputs[i..]: acc = [v, stateAddress, err].
RECURSIVE StateOutputLoop(_, _, _, _)
StateOutputLoop(outputs, color, i, acc) ==
    IF i > Len(outputs) THEN acc
    ELSE LET v == acc.v + BalanceOfColor(outputs[i].bals, color)
         IN  IF v > 1
             THEN [acc EXCEPT !.v = v, !.err = "MultipleStateOutputs"]
             ELSE StateOutputLoop(outputs, color, i + 1,
                                  [acc EXCEPT !.v = v, !.stateAddress = outputs[i].addr])

\* analyzeStateBlock: [err, prop]
analyzeStateBlock(prop, t) ==
    LET ok == t.state # NoStateBlock
        p1 == [prop EXCEPT !.isState = ok]
    IN  IF ~ok THEN [err |-> "nil", prop |-> p1]
        ELSE IF t.state # ColorNew
        THEN LET p2 == [p1 EXCEPT !.stateColor = t.state]
                 r  == StateOutputLoop(t.outputs, p2.stateColor, 1,
                           [v |-> 0, stateAddress |-> p2.stateAddress, err |-> "nil"])
                 p3 == [p2 EXCEPT !.stateAddress = r.stateAddress]
             IN  IF r.err # "nil" THEN [err |-> r.err, prop |-> p3]
                 ELSE IF p3.stateAddress # p3.sender
                 THEN [err |-> "BrokenStateInvariant", prop |-> p3]
                 ELSE [err |-> "nil", prop |-> p3]
        ELSE IF Cardinality(DOMAIN p1.numMintedTokensByAddr) > 1
        THEN [err |-> "MultipleMintTargets", prop |-> p1]
        ELSE LET sa == IF DOMAIN p1.numMintedTokensByAddr = {}
                       THEN p1.stateAddress
                       ELSE CHOOSE a \in DOMAIN p1.numMintedTokensByAddr : TRUE
             IN  [err |-> "nil",
                  prop |-> [p1 EXCEPT !.stateAddress = sa, !.isOrigin = TRUE,
                                      !.stateColor = ColorOfTx(t)]]

\* A buggy numReqByAddr: every targeted address is counted once.
NumReqByAddrOnes(requests) ==
    [a \in {requests[i] : i \in DOMAIN requests} |-> 1]

\* numReqByAddr of analyzeRequestBlocks: target address -> number of requests.
NumReqByAddr(requests) ==
    [a \in {requests[i] : i \in DOMAIN requests} |->
        Cardinality({i \in DOMAIN requests : requests[i] = a})]

\* A buggy analyzeRequestBlocks: the origin check only counts the targets and
\* never compares them with the state address.
analyzeRequestBlocksAnyTarget(prop, t) ==
    LET numReqByAddr == NumReqByAddr(t.requests)
        numMinted(a) == IF a \in DOMAIN prop.numMintedTokensByAddr
                        THEN prop.numMintedTokensByAddr[a] ELSE 0
        wrong == Cardinality(DOMAIN numReqByAddr) # 1
    IN  IF ~prop.isState /\ Len(t.requests) = 0
        THEN [err |-> "EmptyTransaction", prop |-> prop]
        ELSE IF Len(t.requests) = 0 THEN [err |-> "nil", prop |-> prop]
        ELSE IF prop.isOrigin /\ wrong
        THEN [err |-> "MisdirectedOriginRequest", prop |-> prop]
        ELSE IF \E a \in DOMAIN numReqByAddr : numMinted(a) < numReqByAddr[a]
        THEN [err |-> "InsufficientRequestTokens", prop |-> prop]
        ELSE [err |-> "nil", prop |-> prop]

\* analyzeRequestBlocks: [err, prop]
analyzeRequestBlocks(prop, t) ==
    LET numReqByAddr == NumReqByAddr(t.requests)
        numMinted(a) == IF a \in DOMAIN prop.numMintedTokensByAddr
                        THEN prop.numMintedTokensByAddr[a] ELSE 0
        wrong == \/ Cardinality(DOMAIN numReqByAddr) # 1
                 \/ prop.stateAddress \notin DOMAIN numReqByAddr
    IN  IF ~prop.isState /\ Len(t.requests) = 0
        THEN [err |-> "EmptyTransaction", prop |-> prop]
        ELSE IF Len(t.requests) = 0 THEN [err |-> "nil", prop |-> prop]
        ELSE IF prop.isOrigin /\ wrong
        THEN [err |-> "MisdirectedOriginRequest", prop |-> prop]
        ELSE IF \E a \in DOMAIN numReqByAddr : numMinted(a) < numReqByAddr[a]
        THEN [err |-> "InsufficientRequestTokens", prop |-> prop]
        ELSE [err |-> "nil", prop |-> prop]

\* A buggy calcProperties: the request blocks are never analysed.
calcPropertiesNoRequestAnalysis(t) ==
    LET r1 == analyzeSender(EmptyProperties, t)
        p2 == countMintedTokens(r1.prop, t)
        r3 == analyzeStateBlock(p2, t)
    IN  IF r1.err # "nil" THEN [err |-> r1.err]
        ELSE IF r3.err # "nil" THEN [err |-> r3.err]
        ELSE [err |-> "nil", prop |-> r3.prop]

\* calcProperties: (nil, err) on failure, (ret, nil) on success.
calcProperties(t) ==
    LET r1 == analyzeSender(EmptyProperties, t)
        p2 == countMintedTokens(r1.prop, t)
        r3 == analyzeStateBlock(p2, t)
        r4 == analyzeRequestBlocks(r3.prop, t)
    IN  IF r1.err # "nil" THEN [err |-> r1.err]
        ELSE IF r3.err # "nil" THEN [err |-> r3.err]
        ELSE IF r4.err # "nil" THEN [err |-> r4.err]
        ELSE [err |-> "nil", prop |-> r4.prop]

\* Accessors of Properties.
Sender(prop) == prop.sender

IsState(prop) == prop.isState

IsOrigin(prop) == prop.isState

\* MustStateAddress panics unless isState.
MustStateAddress(prop) == IF prop.isState THEN prop.stateAddress ELSE "panic"

\* MustStateColor panics unless isState.
MustStateColor(prop) == IF prop.isState THEN prop.stateColor ELSE "panic"

InitProps ==
    /\ tx \in [inputs : InputLists, outputs : OutputLists,
               state : StateBlocks, requests : RequestLists]
    /\ props = NotComputed
    /\ req = IdleRequest
    /\ daemonStopped = FALSE
    /\ workers = {}
    /\ tasks = <<>>
    /\ processors = {}
    /\ regs = <<>>

\* tx.Properties(): runs calcProperties on the sealed transaction.
CalcProperties ==
    /\ props = NotComputed
    /\ props' = calcProperties(tx)
    /\ UNCHANGED <<tx, runVars, regVars, reqVars>>

NextProps == CalcProperties

SpecProps == InitProps /\ [][NextProps]_vars

(***************************************************************************)
(* Claims about calcProperties (checked under SpecProps)                   *)
(***************************************************************************)

\* The distinct addresses among the inputs of t.
InputAddresses(t) == {t.inputs[i] : i \in DOMAIN t.inputs}

\* The outputs of t that carry a positive balance of colour c.
OutputsOfColor(t, c) ==
    {i \in DOMAIN t.outputs : BalanceOfColor(t.outputs[i].bals, c) > 0}

C10_StateTokenSoundness ==
    (props # NotComputed /\ props.err = "nil" /\ tx.state = ColorSC) =>
        /\ Cardinality(OutputsOfColor(tx, ColorSC)) = 1
        /\ \A i \in OutputsOfColor(tx, ColorSC) :
              /\ tx.outputs[i].bals[ColorSC] = 1
              /\ tx.outputs[i].addr = Sender(props.prop)
              /\ MustStateAddress(props.prop) = tx.outputs[i].addr

\* The addresses that receive freshly minted (new-colour) tokens in t.
MintTargets(t) == {t.outputs[i].addr : i \in OutputsOfColor(t, ColorNew)}

\* The amount of new-colour tokens that the outputs of t send to address a.
MintedTo(t, a) ==
    IF a \in MintTargets(t)
    THEN LET i == CHOOSE k \in OutputsOfColor(t, ColorNew) : t.outputs[k].addr = a
         IN  t.outputs[i].bals[ColorNew]
    ELSE 0

\* The addresses targeted by the request blocks of t.
RequestTargets(t) == {t.requests[i] : i \in DOMAIN t.requests}

\* The number of request blocks of t that target address a.
RequestsTo(t, a) == Cardinality({i \in DOMAIN t.requests : t.requests[i] = a})

\* t has exactly one distinct input address.
SingleSender(t) == Cardinality(InputAddresses(t)) = 1

\* C11: when calcProperties succeeds on a transaction whose state block has
\* the new-colour sentinel, the minted tokens go to exactly one address,
\* MustStateAddress() is that address and MustStateColor() is the colour of
\* the transaction's own ID; a single-sender origin transaction that mints to
\* two or more addresses fails with MultipleMintTargets.
C11_OriginMintTarget ==
    (props # NotComputed /\ tx.state = ColorNew) =>
        /\ props.err = "nil" =>
              /\ Cardinality(MintTargets(tx)) = 1
              /\ MintTargets(tx) = {MustStateAddress(props.prop)}
              /\ MustStateColor(props.prop) = <<"color", TransactionID(tx)>>
        /\ (Cardinality(MintTargets(tx)) >= 2 /\ SingleSender(tx)) =>
              props.err = "MultipleMintTargets"

\* Some request block of the origin transaction t targets an address other
\* than the single address the minted tokens go to.
Misdirected(t) == \E i \in DOMAIN t.requests : MintTargets(t) # {t.requests[i]}

\* C12: an origin transaction with at least one request block passes
\* calcProperties only if every request block targets the single minted-token
\* address, which is the state address; one with a request to any other
\* address fails, and fails with MisdirectedOriginRequest whenever the sender
\* and state-block analyses, which run first, have passed.
C12_OriginRequestTargets ==
    (props # NotComputed /\ tx.state = ColorNew /\ Len(tx.requests) >= 1) =>
        /\ props.err = "nil" =>
              /\ ~Misdirected(tx)
              /\ \A i \in DOMAIN tx.requests :
                    tx.requests[i] = MustStateAddress(props.prop)
        /\ Misdirected(tx) =>
              props.err \in {"MultipleSenders", "MultipleMintTargets",
                             "MisdirectedOriginRequest"}
        /\ (Misdirected(tx) /\ SingleSender(tx) /\ Cardinality(MintTargets(tx)) <= 1) =>
              props.err = "MisdirectedOriginRequest"

\* C12 witness: an origin transaction that mints two tokens to a1 and carries
\* one request to a1 and one to a2 has been rejected as misdirected.
C12_Witness ==
    /\ props # NotComputed
    /\ tx.state = ColorNew
    /\ tx.inputs = <<"a1">>
    /\ MintTargets(tx) = {"a1"}
    /\ MintedTo(tx, "a1") = 2
    /\ tx.requests = <<"a1", "a2">>
    /\ props.err = "MisdirectedOriginRequest"

\* Some address is targeted by more request blocks than it receives minted
\* tokens.
Starved(t) == \E a \in RequestTargets(t) : MintedTo(t, a) < RequestsTo(t, a)

\* C13: when calcProperties succeeds every address targeted by N >= 1
\* request blocks receives at least N minted tokens; a transaction in which
\* some target receives fewer fails, and fails with InsufficientRequestTokens
\* when it is a single-sender transaction without a state block, so that no
\* earlier check applies.
C13_RequestTokenConservation ==
    props # NotComputed =>
        /\ props.err = "nil" =>
              \A a \in RequestTargets(tx) : MintedTo(tx, a) >= RequestsTo(tx, a)
        /\ Starved(tx) => props.err \notin {"nil", "EmptyTransaction"}
        /\ (Starved(tx) /\ SingleSender(tx) /\ tx.state = NoStateBlock) =>
              props.err = "InsufficientRequestTokens"

\* C13 witness: a request-only transaction with two requests to a1 and one
\* token minted to a1 has been rejected for insufficient request tokens.
C13_Witness ==
    /\ props # NotComputed
    /\ tx.state = NoStateBlock
    /\ tx.inputs = <<"a1">>
    /\ tx.requests = <<"a1", "a1">>
    /\ MintedTo(tx, "a1") = 1
    /\ props.err = "InsufficientRequestTokens"

\* C14: a transaction with neither a state block nor a request block fails
\* calcProperties (with EmptyTransaction when it has a single sender) and
\* yields no Properties; a transaction with a state block and no request
\* block is never rejected by the request-block analysis.
C14_EmptyTransaction ==
    props # NotComputed =>
        /\ (tx.state = NoStateBlock /\ tx.requests = <<>>) =>
              /\ props.err # "nil"
              /\ "prop" \notin DOMAIN props
              /\ SingleSender(tx) => props.err = "EmptyTransaction"
        /\ (tx.state # NoStateBlock /\ tx.requests = <<>>) =>
              props.err \notin {"EmptyTransaction", "MisdirectedOriginRequest",
                                "InsufficientRequestTokens"}

\* C14 witness: a single-sender transaction that only moves tokens, with no
\* state block and no request block, has been rejected as empty.
C14_Witness ==
    /\ props # NotComputed
    /\ tx.state = NoStateBlock
    /\ tx.requests = <<>>
    /\ tx.inputs = <<"a1">>
    /\ Len(tx.outputs) = 1
    /\ props.err = "EmptyTransaction"
    /\ DOMAIN props = {"err"}

\* C15: for a successfully analysed transaction IsOrigin() is true exactly
\* when the transaction has a state block of the new-colour sentinel.
C15_IsOriginOwnFlag ==
    (props # NotComputed /\ props.err = "nil") =>
        (IsOrigin(props.prop) <=> tx.state = ColorNew)

\* C20: a transaction with a single input address S and a state block of an
\* already-assigned colour, whose only output of that colour has amount 1 and
\* is located at S, passes the state-block analysis wherever its other
\* outputs are placed.
C20_StateTokenCompleteness ==
    (/\ props # NotComputed
     /\ Len(tx.inputs) = 1
     /\ tx.state = ColorSC
     /\ Cardinality(OutputsOfColor(tx, ColorSC)) = 1
     /\ \A i \in OutputsOfColor(tx, ColorSC) :
           /\ tx.outputs[i].bals[ColorSC] = 1
           /\ tx.outputs[i].addr = tx.inputs[1])
    => props.err \notin {"BrokenStateInvariant", "MultipleStateOutputs"}

(***************************************************************************)
(* Part 2.  plugins/runvm/plugin.go                                        *)
(***************************************************************************)

\* The *vm.VMTask objects handed to RunComputationsAsync.
Ctxs == {"c1", "c2"}

\* Chain addresses of the submitted tasks.
ChainAddresses == {"a1", "a2"}

\* Largest number of requests in one task of the RunVM plugin.
MaxRequests == 2

\* The i-th pending request: two request blocks per originating transaction.
PendingRequest(i) == [tx |-> (i + 1) \div 2, index |-> (i + 1) % 2]

\* The ordered request lists a task may carry: the contiguous runs of the
\* first n pending requests, the empty list included.
RequestBatches(n) ==
    {[k \in 1..(hi - lo + 1) |-> PendingRequest(lo + k - 1)] :
        lo \in 1..(n + 1), hi \in 0..n}

\* int64 (the type of ctx.Timestamp and vmctx.Timestamp): four 16-bit limbs
\* in two's complement, most significant limb first.
Limb == 2^16

Int64Zero == <<0, 0, 0, 0>>

\* The int64 value n, for 0 <= n < Limb.
Int64Small(n) == <<0, 0, 0, n>>

\* math.MaxInt64
Int64Max == <<Limb \div 2 - 1, Limb - 1, Limb - 1, Limb - 1>>

\* The int64 value -1.
Int64MinusOne == <<Limb - 1, Limb - 1, Limb - 1, Limb - 1>>

\* x += 1 on an int64: the carry runs through the limbs and is dropped at
\* the top, so math.MaxInt64 + 1 is math.MinInt64.
Int64Inc(x) ==
    LET s4 == x[4] + 1
        s3 == x[3] + s4 \div Limb
        s2 == x[2] + s3 \div Limb
        s1 == x[1] + s2 \div Limb
    IN  <<s1 % Limb, s2 % Limb, s3 % Limb, s4 % Limb>>

\* a < b on int64 values (signed comparison).
Int64Less(a, b) ==
    LET ka == [a EXCEPT ![1] = (@ + Limb \div 2) % Limb]
        kb == [b EXCEPT ![1] = (@ + Limb \div 2) % Limb]
    IN  \E i \in 1..4 : ka[i] < kb[i] /\ \A j \in 1..(i - 1) : ka[j] = kb[j]

\* ctx.Timestamp values: zero (no timestamp) and a non-zero one.
Timestamps == {Int64Zero, Int64Small(7)}

\* ctx.LeaderPeerIndex values.
LeaderIndexes == {0, 1}

\* State index of the virtual state handed in with a task.
StateIndexes == {0, 3}

\* ctx.Balances: nothing spendable, or the chain's spendable outputs.
NoBalances == [sc |-> 0]

SomeBalances == [sc |-> 1]

\* Nil values of pointer / interface fields.
NilBatch == [nil |-> TRUE]

NilTransaction == [nil |-> TRUE]

NilVMContext == [nil |-> TRUE]

NilTask == [nil |-> TRUE]

\* reqRef.RequestId(): transaction id and index of the request block.
RequestId(reqRef) == <<reqRef.tx, reqRef.index>>

\* sctransaction.TakeRequestIds(ctx.Requests)
TakeRequestIds(requests) == [i \in DOMAIN requests |-> RequestId(requests[i])]

\* vm.BatchHash(reqids, ts, leader): a collision-free digest of its arguments.
BatchHash(reqids, ts, leader) == [reqids |-> reqids, ts |-> ts, leader |-> leader]

\* hashing.HashData applied to an entropy value: one more link of the chain.
HashData(entropy) == [entropy EXCEPT !.hashed = @ + 1]

\* state.VirtualState: its index, the updates applied to its variables, and
\* the timestamp of the last one.
NewVirtualState(index) == [index |-> index, vars |-> <<>>, timestamp |-> Int64Zero]

\* VirtualState.Clone()
Clone(vs) == vs

\* VirtualState.StateIndex()
StateIndex(vs) == vs.index

\* VirtualState.Hash(): a collision-free digest of the state.
Hash(vs) == [index |-> vs.index, vars |-> vs.vars]

\* VirtualState.ApplyStateUpdate(stateUpdate): the index does not move.
ApplyStateUpdate(vs, su) ==
    [vs EXCEPT !.vars = Append(@, su), !.timestamp = su.timestamp]

\* state.NewBatch(stateUpdates): a batch is never empty.
NewBatch(sus) ==
    IF Len(sus) = 0 THEN [err |-> "batch can't be empty", batch |-> NilBatch]
    ELSE [err |-> "nil", batch |-> [updates |-> sus, stateIndex |-> 0]]

\* Batch.WithStateIndex(index)
WithStateIndex(batch, index) == [batch EXCEPT !.stateIndex = index]

\* Batch.Size()
Size(batch) == Len(batch.updates)

RECURSIVE ApplyUpdates(_, _, _)
ApplyUpdates(vs, sus, i) ==
    IF i > Len(sus) THEN vs
    ELSE ApplyUpdates(ApplyStateUpdate(vs, sus[i]), sus, i + 1)

\* VirtualState.ApplyBatch(batch): the batch must advance the index by one.
ApplyBatch(vs, batch) ==
    IF batch.stateIndex # vs.index + 1
    THEN [err |-> "batch state index mismatch", vs |-> vs]
    ELSE [err |-> "nil",
          vs |-> [ApplyUpdates(vs, batch.updates, 1) EXCEPT !.index = batch.stateIndex]]

\* txbuilder.NewFromAddressBalances(&ctx.Address, ctx.Balances)
NewFromAddressBalances(addr, balances) ==
    IF \A c \in DOMAIN balances : balances[c] = 0
    THEN [err |-> "NewTxBuilder: no balances"]
    ELSE [err |-> "nil"]

\* The VMTask objects a caller may build for the RunVM plugin.
VMTasks ==
    [Address : ChainAddresses,
     Requests : RequestBatches(MaxRequests),
     Timestamp : Timestamps,
     LeaderPeerIndex : LeaderIndexes,
     Balances : {NoBalances, SomeBalances},
     VirtualState : {NewVirtualState(i) : i \in StateIndexes},
     Entropy : {[seed |-> "e", hashed |-> 0]},
     ResultBatch : {NilBatch},
     ResultTransaction : {NilTransaction}]

\* A task name that also depends on the state index of the virtual state.
TaskNameWithStateIndex(ctx) ==
    <<ctx.Address,
      [BatchHash(TakeRequestIds(ctx.Requests), ctx.Timestamp, ctx.LeaderPeerIndex)
          EXCEPT !.ts = <<@, ctx.VirtualState.index>>]>>

\* taskName := ctx.Address.String() + "." + bh.String()
TaskName(ctx) ==
    <<ctx.Address,
      BatchHash(TakeRequestIds(ctx.Requests), ctx.Timestamp, ctx.LeaderPeerIndex)>>

\* vmDaemon.BackgroundWorker(name, ...): the error it returns, "nil" when the
\* worker is registered and started.
BackgroundWorker(name) ==
    IF daemonStopped THEN "daemon was already stopped"
    ELSE IF name \in workers THEN "existing background worker is still running"
    ELSE "nil"

\* A callback that reports only successes; errors are logged and dropped.
OnFinishLogErrors(calls, err) == IF err = "nil" THEN Append(calls, err) ELSE calls

\* ctx.OnFinish(err): the calls made so far, with this one added.
OnFinish(calls, err) == Append(calls, err)

\* A VMTask that was not handed to RunComputationsAsync yet.
\* given: the task as the caller built it; log: the errors written to ctx.Log.
IdleTask ==
    [pc |-> "idle", ctx |-> NilTask, given |-> NilTask, ret |-> "none",
     vmctx |-> NilVMContext, stateUpdates |-> <<>>, onFinish |-> <<>>, log |-> <<>>]

InitRunVM ==
    /\ daemonStopped = FALSE
    /\ workers = {}
    /\ tasks = [c \in Ctxs |-> IdleTask]
    /\ processors = {}
    /\ regs = <<>>
    /\ tx = NoTransaction
    /\ props = NotComputed
    /\ req = IdleRequest

\* RunComputationsAsync(ctx) for a task ctx out of Tasks, up to its return;
\* a nil return leaves the worker (runTask) started under taskName.
RunComputationsAsyncOf(c, Tasks) ==
    /\ tasks[c].pc = "idle"
    /\ \E ctx \in Tasks :
          LET txb  == NewFromAddressBalances(ctx.Address, ctx.Balances)
              name == TaskName(ctx)
              err  == IF Len(ctx.Requests) = 0 THEN "must be at least 1 request"
                      ELSE IF txb.err # "nil" THEN txb.err
                      ELSE BackgroundWorker(name)
          IN  /\ tasks' = [tasks EXCEPT ![c] =
                    [@ EXCEPT !.ctx = ctx, !.given = ctx, !.ret = err,
                              !.pc = IF err = "nil" THEN "start" ELSE "rejected"]]
              /\ workers' = IF err = "nil" THEN workers \cup {name} ELSE workers
    /\ UNCHANGED <<daemonStopped, propVars, regVars, reqVars>>

\* RunComputationsAsync(ctx) as the consensus calls it.
RunComputationsAsync(c) == RunComputationsAsyncOf(c, VMTasks)

\* createVMContext(ctx, txb): the VM context works on a clone of the state.
createVMContext(ctx, ok) ==
    IF ~ok THEN [err |-> "createVMContext", vmctx |-> NilVMContext]
    ELSE [err |-> "nil",
          vmctx |-> [Timestamp |-> ctx.Timestamp, Entropy |-> ctx.Entropy,
                     VirtualState |-> Clone(ctx.VirtualState)]]

\* The worker ends: the daemon forgets the running name.
WorkerDone(name) == workers \ {name}

\* runTask, lines 79-93: create the VM context or report the failure.
RunTaskStart(c) ==
    /\ tasks[c].pc = "start"
    /\ \E ok \in BOOLEAN :
          LET r == createVMContext(tasks[c].ctx, ok)
          IN  IF r.err # "nil"
              THEN /\ tasks' = [tasks EXCEPT ![c] =
                         [@ EXCEPT !.pc = "done",
                                   !.onFinish = OnFinish(@, "createVMContext: " \o r.err)]]
                   /\ workers' = WorkerDone(TaskName(tasks[c].ctx))
              ELSE /\ tasks' = [tasks EXCEPT ![c] =
                         [@ EXCEPT !.pc = "loop", !.vmctx = r.vmctx]]
                   /\ UNCHANGED workers
    /\ UNCHANGED <<daemonStopped, propVars, regVars, reqVars>>

\* vmctx.Timestamp after one request: non-zero timestamps advance by 1 ns.
NextTimestamp(ts) == IF ts # Int64Zero THEN Int64Inc(ts) ELSE ts

\* The state update of one request: created with the current timestamp and
\* filled by runTheRequest, which runs with the current entropy.
RunTheRequest(vmctx, reqRef) ==
    [reqid |-> RequestId(reqRef), timestamp |-> vmctx.Timestamp,
     entropy |-> vmctx.Entropy]

\* One iteration of the request loop of runTask, lines 95-111.
RunRequest(c) ==
    /\ tasks[c].pc = "loop"
    /\ Len(tasks[c].stateUpdates) < Len(tasks[c].ctx.Requests)
    /\ LET t      == tasks[c]
           reqRef == t.ctx.Requests[Len(t.stateUpdates) + 1]
           su     == RunTheRequest(t.vmctx, reqRef)
       IN  tasks' = [tasks EXCEPT ![c] =
              [@ EXCEPT !.stateUpdates = Append(@, su),
                        !.vmctx = [VirtualState |-> ApplyStateUpdate(t.vmctx.VirtualState, su),
                                   Timestamp |-> NextTimestamp(t.vmctx.Timestamp),
                                   Entropy |-> HashData(t.vmctx.Entropy)]]]
    /\ UNCHANGED <<daemonStopped, workers, propVars, regVars, reqVars>>

\* The calls of runTask's tail that the environment may make fail.
Faults == {"none", "SetStateParams", "Build", "Properties"}

\* A result hash taken from the input state, the batch left unapplied.
ResultStateHashOfInput(vs, batch) == [err |-> "nil", hash |-> Hash(vs), timestamp |-> vs.timestamp]

\* Lines 126-132: apply the batch to a clone of the input state and hash it.
ResultStateHash(vs, batch) ==
    LET vsClone == Clone(vs)
        r       == ApplyBatch(vsClone, batch)
    IN  [err |-> r.err, hash |-> Hash(r.vs), timestamp |-> r.vs.timestamp]

\* runTask after the loop, lines 112-167: the task with its result fields as
\* the code leaves them, and the argument of the one ctx.OnFinish call.
FinishBatch(ctx, stateUpdates, fault) ==
    IF Len(stateUpdates) = 0
    THEN [ctx |-> ctx, err |-> "RunVM: no state updates were produced"]
    ELSE
    LET nb    == NewBatch(stateUpdates)
        batch == WithStateIndex(nb.batch, StateIndex(ctx.VirtualState) + 1)
        ctx1  == [ctx EXCEPT !.ResultBatch = batch]
        sh    == ResultStateHash(ctx.VirtualState, batch)
        rtx   == [stateIndex |-> StateIndex(ctx.VirtualState) + 1,
                  stateHash |-> sh.hash, timestamp |-> sh.timestamp]
        ctx2  == [ctx1 EXCEPT !.ResultTransaction = rtx]
    IN  IF nb.err # "nil"
        THEN [ctx |-> [ctx EXCEPT !.ResultBatch = nb.batch], err |-> "RunVM: " \o nb.err]
        ELSE IF sh.err # "nil" THEN [ctx |-> ctx1, err |-> "RunVM: " \o sh.err]
        ELSE IF fault = "SetStateParams"
        THEN [ctx |-> ctx1, err |-> "RunVM.txbuilder.SetStateParams"]
        ELSE IF fault = "Build"
        THEN [ctx |-> ctx1, err |-> "RunVM.txbuilder.Build"]
        ELSE IF fault = "Properties"
        THEN [ctx |-> ctx2, err |-> "RunVM.txbuilder.Properties"]
        ELSE [ctx |-> ctx2, err |-> "nil"]

\* runTask after the loop: build the result, call back, end the worker.
RunTaskFinish(c) ==
    /\ tasks[c].pc = "loop"
    /\ Len(tasks[c].stateUpdates) = Len(tasks[c].ctx.Requests)
    /\ \E fault \in Faults :
          LET r == FinishBatch(tasks[c].ctx, tasks[c].stateUpdates, fault)
          IN  tasks' = [tasks EXCEPT ![c] =
                 [@ EXCEPT !.pc = "done", !.ctx = r.ctx,
                           !.onFinish = OnFinish(@, r.err)]]
    /\ workers' = WorkerDone(TaskName(tasks[c].ctx))
    /\ UNCHANGED <<daemonStopped, propVars, regVars, reqVars>>

\* The plugin's worker receives the node's shutdown signal and calls
\* vmDaemon.Shutdown(): every worker's shutdownSignal is closed.
Shutdown ==
    /\ ~daemonStopped
    /\ daemonStopped' = TRUE
    /\ UNCHANGED <<workers, tasks, propVars, regVars, reqVars>>

NextRunVM ==
    \/ \E c \in Ctxs : RunComputationsAsync(c)
    \/ \E c \in Ctxs : RunTaskStart(c)
    \/ \E c \in Ctxs : RunRequest(c)
    \/ \E c \in Ctxs : RunTaskFinish(c)
    \/ Shutdown

SpecRunVM == InitRunVM /\ [][NextRunVM]_vars

\* One task at a time, over the whole range of int64 timestamps.
TimedCtxs == {"t1"}

\* Largest number of requests in a task of such a run.
MaxTimedRequests == 3

\* Starting timestamps: none, an ordinary one, the one just below zero and
\* the largest int64.
TimedTimestamps == {Int64Zero, Int64Small(7), Int64MinusOne, Int64Max}

TimedTasks ==
    [Address : {"a1"},
     Requests : RequestBatches(MaxTimedRequests),
     Timestamp : TimedTimestamps,
     LeaderPeerIndex : {0},
     Balances : {SomeBalances},
     VirtualState : {NewVirtualState(3)},
     Entropy : {[seed |-> "e", hashed |-> 0]},
     ResultBatch : {NilBatch},
     ResultTransaction : {NilTransaction}]

InitRunTask ==
    /\ daemonStopped = FALSE
    /\ workers = {}
    /\ tasks = [c \in TimedCtxs |-> IdleTask]
    /\ processors = {}
    /\ regs = <<>>
    /\ tx = NoTransaction
    /\ props = NotComputed
    /\ req = IdleRequest

NextRunTask ==
    \/ \E c \in TimedCtxs : RunComputationsAsyncOf(c, TimedTasks)
    \/ \E c \in TimedCtxs : RunTaskStart(c)
    \/ \E c \in TimedCtxs : RunRequest(c)
    \/ \E c \in TimedCtxs : RunTaskFinish(c)
    \/ Shutdown

SpecRunTask == InitRunTask /\ [][NextRunTask]_vars

(***************************************************************************)
(* Claims about the RunVM plugin (checked under SpecRunVM)                 *)
(***************************************************************************)

\* The worker of task c was started and has not ended.
Running(c) == tasks[c].pc \in {"start", "loop"}

\* What the task name is computed from: chain address, ordered request
\* ids, timestamp and leader index.
TaskKey(ctx) ==
    <<ctx.Address, TakeRequestIds(ctx.Requests), ctx.Timestamp, ctx.LeaderPeerIndex>>

\* C1: no two running executions share a task name, and a submission that
\* returned an error (a duplicate of a running name among them) started no
\* execution and its callback was never invoked.
C1_SingleFlight ==
    /\ \A c, d \in Ctxs :
          (Running(c) /\ Running(d) /\ TaskKey(tasks[c].given) = TaskKey(tasks[d].given))
              => c = d
    /\ \A c \in Ctxs :
          /\ tasks[c].ret = "nil" <=> tasks[c].pc \in {"start", "loop", "done"}
          /\ tasks[c].pc = "rejected" =>
                /\ tasks[c].ret \notin {"nil", "none"}
                /\ tasks[c].onFinish = <<>>
                /\ tasks[c].stateUpdates = <<>>
                /\ tasks[c].vmctx = NilVMContext

\* C1 witness: a task is running and a second submission of the same task
\* name was turned down by the daemon.
C1_Witness ==
    \E c, d \in Ctxs :
        /\ c # d
        /\ Running(c)
        /\ tasks[d].pc = "rejected"
        /\ tasks[d].ret = "existing background worker is still running"
        /\ TaskKey(tasks[c].given) = TaskKey(tasks[d].given)

\* C2: the callback of a task is invoked at most once; exactly once when
\* runTask has ended; never for a submission that returned an error; and
\* not before RunComputationsAsync has returned nil (a started worker has
\* made no call yet).
C2_ExactlyOnce ==
    \A c \in Ctxs :
        /\ Len(tasks[c].onFinish) <= 1
        /\ tasks[c].pc = "done" => (tasks[c].ret = "nil" /\ Len(tasks[c].onFinish) = 1)
        /\ tasks[c].ret # "nil" => tasks[c].onFinish = <<>>
        /\ tasks[c].pc \in {"start", "loop"} =>
              (tasks[c].ret = "nil" /\ tasks[c].onFinish = <<>>)

\* C2 witness: one run ended with OnFinish(nil), one with OnFinish(err).
C2_Witness ==
    \E c, d \in Ctxs :
        /\ tasks[c].pc = "done" /\ tasks[c].onFinish = <<"nil">>
        /\ tasks[d].pc = "done" /\ Len(tasks[d].onFinish) = 1
        /\ tasks[d].onFinish[1] # "nil"

\* C3: a task whose callback got an error has neither ResultBatch nor
\* ResultTransaction set; both are set only with a nil callback.
C3_AtomicHandoff ==
    \A c \in Ctxs :
        tasks[c].pc # "idle" =>
            /\ (tasks[c].onFinish # <<>> /\ tasks[c].onFinish[1] # "nil") =>
                  /\ tasks[c].ctx.ResultBatch = NilBatch
                  /\ tasks[c].ctx.ResultTransaction = NilTransaction
            /\ (\/ tasks[c].ctx.ResultBatch # NilBatch
                \/ tasks[c].ctx.ResultTransaction # NilTransaction) =>
                  /\ tasks[c].onFinish = <<"nil">>
                  /\ tasks[c].ctx.ResultBatch # NilBatch
                  /\ tasks[c].ctx.ResultTransaction # NilTransaction

\* C4: once the shutdown signal is raised while a task still has requests
\* to process, the task processes no further request and ends with an error
\* for its callback.
C4_CooperativeCancellation ==
    [][\A c \in Ctxs :
          (/\ daemonStopped
           /\ tasks[c].pc = "loop"
           /\ Len(tasks[c].stateUpdates) < Len(tasks[c].ctx.Requests))
          => /\ tasks'[c].stateUpdates = tasks[c].stateUpdates
             /\ tasks'[c].pc = "done" => tasks'[c].onFinish # <<"nil">>]_vars

\* C8: a run that reported success left a batch of state index input+1 and
\* of size 1..number of requests, and a result transaction whose state block
\* has that index and the hash of the input state with the batch applied.
C8_ResultShape ==
    \A c \in Ctxs :
        (tasks[c].pc = "done" /\ tasks[c].onFinish = <<"nil">>) =>
            LET in    == tasks[c].given
                batch == tasks[c].ctx.ResultBatch
                rtx   == tasks[c].ctx.ResultTransaction
            IN  /\ batch # NilBatch /\ rtx # NilTransaction
                /\ batch.stateIndex = in.VirtualState.index + 1
                /\ Size(batch) >= 1 /\ Size(batch) <= Len(in.Requests)
                /\ rtx.stateIndex = in.VirtualState.index + 1
                /\ rtx.stateHash =
                      Hash([index |-> in.VirtualState.index + 1,
                            vars |-> in.VirtualState.vars \o batch.updates])

\* C8 witness: a task of two requests on a state of index 3 reported success.
C8_Witness ==
    \E c \in Ctxs :
        /\ tasks[c].pc = "done" /\ tasks[c].onFinish = <<"nil">>
        /\ Len(tasks[c].given.Requests) = 2
        /\ tasks[c].given.VirtualState.index = 3

\* The entropy e hashed n times.
RECURSIVE HashTimes(_, _)
HashTimes(e, n) == IF n = 0 THEN e ELSE HashData(HashTimes(e, n - 1))

\* The int64 timestamp ts advanced n times by one.
RECURSIVE Int64Plus(_, _)
Int64Plus(ts, n) == IF n = 0 THEN ts ELSE Int64Inc(Int64Plus(ts, n - 1))

\* C19 (checked under SpecRunTask): with a non-zero starting timestamp T
\* the i-th state update, counting from 0, carries T+i and the timestamps
\* are strictly increasing, hence pairwise distinct; with T = 0 every state
\* update carries 0; and the i-th request runs with the starting entropy
\* hashed i times.
C19_TimestampAndEntropy ==
    \A c \in DOMAIN tasks :
        tasks[c].pc \in {"loop", "done"} =>
            LET T   == tasks[c].given.Timestamp
                sus == tasks[c].stateUpdates
            IN  /\ T # Int64Zero =>
                      /\ \A i \in DOMAIN sus : sus[i].timestamp = Int64Plus(T, i - 1)
                      /\ \A i, j \in DOMAIN sus :
                            i < j => Int64Less(sus[i].timestamp, sus[j].timestamp)
                /\ T = Int64Zero =>
                      \A i \in DOMAIN sus : sus[i].timestamp = Int64Zero
                /\ \A i \in DOMAIN sus :
                      sus[i].entropy = HashTimes(tasks[c].given.Entropy, i - 1)

(***************************************************************************)
(* Part 3.  The VM plugin (unnamed/part_000): processor registry,          *)
(* RunComputationsAsync and runVM.  Its vmDaemon is modelled by the same   *)
(* variables daemonStopped and workers, its tasks by the variable tasks.   *)
(***************************************************************************)

\* The one VMTask object handed to the VM plugin.
VMCtxs == {"v1"}

\* The RegisterProcessor calls made while the task is scheduled.
VMRegCalls == {"g1"}

\* Program hashes: the three the switch of RegisterProcessor names (sc1,
\* sc2, sc3) and one it does not know.
ProgramHashes == {"sc1", "sc2", "sc3", "other"}

\* Largest number of requests in one task of the VM plugin.
MaxVMRequests == 3

\* Largest balance of one request-token colour at the chain address.
MaxBalance == 2

\* Transactions the pending requests come from; the colour of a request
\* token is the id of its transaction.
RequestTxs(n) == {PendingRequest(i).tx : i \in 1..n}

\* ctx.Balances: the chain's own token and the request tokens per colour.
VMBalances(n) ==
    [own : 0..1, req : [RequestTxs(n) -> 0..MaxBalance]]

\* The VMTask objects a caller may build for the VM plugin.
VMPluginTasks ==
    [Address : ChainAddresses,
     ProgramHash : ProgramHashes,
     Requests : RequestBatches(MaxVMRequests),
     Timestamp : {Int64Small(7)},
     Balances : VMBalances(MaxVMRequests),
     VariableState : {NewVirtualState(i) : i \in StateIndexes},
     ResultBatch : {NilBatch},
     ResultTransaction : {NilTransaction}]

\* A RegisterProcessor call that was not made yet.
IdleReg == [pc |-> "idle", programHash |-> "", onFinish |-> <<>>]

InitVM ==
    /\ daemonStopped = FALSE
    /\ workers = {}
    /\ tasks = [c \in VMCtxs |-> IdleTask]
    /\ processors = {}
    /\ regs = [g \in VMRegCalls |-> IdleReg]
    /\ tx = NoTransaction
    /\ props = NotComputed
    /\ req = IdleRequest

\* RegisterProcessor(programHash, onFinish): starts the goroutine, returns.
RegisterProcessor(g) ==
    /\ regs[g].pc = "idle"
    /\ \E h \in ProgramHashes :
          regs' = [regs EXCEPT ![g] = [@ EXCEPT !.pc = "pending", !.programHash = h]]
    /\ UNCHANGED <<processors, runVars, propVars, reqVars>>

\* The switch of RegisterProcessor: the error handed to onFinish.
CreateProcessor(programHash) ==
    IF programHash = "sc1" THEN "nil"
    ELSE IF programHash \in {"sc2", "sc3"} THEN "VM not implemented"
    ELSE "can't create processor for progam hash"

\* processorsMutex is write-locked: a goroutine of RegisterProcessor is
\* between its Lock() and its deferred Unlock().
WriteLocked == \E g \in DOMAIN regs : regs[g].pc = "finishing"

\* A reader lock that never waits for the writer.
RLockNeverBlocks == TRUE

\* processorsMutex.RLock() of getProcessor can be acquired.
RLockFree == ~WriteLocked

\* A goroutine that stores a processor for whatever hash it is given.
RegisterProcessorRunAlwaysStore(g) ==
    /\ regs[g].pc = "pending"
    /\ ~WriteLocked
    /\ processors' = processors \cup {regs[g].programHash}
    /\ regs' = [regs EXCEPT ![g] = [@ EXCEPT !.pc = "finishing"]]
    /\ UNCHANGED <<runVars, propVars, reqVars>>

\* The goroutine of RegisterProcessor: processorsMutex.Lock(), the switch,
\* and the store into the map in the case of a known, implemented program.
RegisterProcessorRun(g) ==
    /\ regs[g].pc = "pending"
    /\ ~WriteLocked
    /\ processors' = IF CreateProcessor(regs[g].programHash) = "nil"
                     THEN processors \cup {regs[g].programHash}
                     ELSE processors
    /\ regs' = [regs EXCEPT ![g] = [@ EXCEPT !.pc = "finishing"]]
    /\ UNCHANGED <<runVars, propVars, reqVars>>

\* The goroutine of RegisterProcessor: the onFinish call of the case taken,
\* then the deferred processorsMutex.Unlock().
RegisterProcessorFinish(g) ==
    /\ regs[g].pc = "finishing"
    /\ regs' = [regs EXCEPT ![g] =
           [@ EXCEPT !.pc = "done",
                     !.onFinish = Append(@, CreateProcessor(regs[g].programHash))]]
    /\ UNCHANGED <<processors, runVars, propVars, reqVars>>

\* getProcessor(programHash), under processorsMutex.RLock().
getProcessor(programHash) ==
    IF programHash \in processors THEN [err |-> "nil", processor |-> programHash]
    ELSE [err |-> "no such processor", processor |-> "none"]

\* vm.NewTxBuilder(params): needs something to spend.
NewTxBuilder(balances) ==
    IF balances.own = 0 /\ \A t \in DOMAIN balances.req : balances.req[t] = 0
    THEN [err |-> "NewTxBuilder: no balances", txbuilder |-> balances]
    ELSE [err |-> "nil", txbuilder |-> balances]

\* txbuilder.EraseColor(addr, color, amount): burns amount tokens of the
\* colour, or fails when the address holds fewer.
EraseColor(txbuilder, color, amount) ==
    IF txbuilder.req[color] < amount
    THEN [err |-> "not enough balance", txbuilder |-> txbuilder]
    ELSE [err |-> "nil",
          txbuilder |-> [txbuilder EXCEPT !.req[color] = @ - amount]]

\* taskName of the VM plugin: the batch hash has no leader index.
VMTaskName(ctx) ==
    <<ctx.Address, BatchHash(TakeRequestIds(ctx.Requests), ctx.Timestamp, 0)>>

\* RunComputationsAsync(ctx) of the VM plugin, up to its return.
VMRunComputationsAsync(c) ==
    /\ tasks[c].pc = "idle"
    /\ RLockFree
    /\ \E ctx \in VMPluginTasks :
          LET p    == getProcessor(ctx.ProgramHash)
              txb  == NewTxBuilder(ctx.Balances)
              name == VMTaskName(ctx)
              err  == IF p.err # "nil" THEN p.err
                      ELSE IF txb.err # "nil" THEN txb.err
                      ELSE BackgroundWorker(name)
          IN  /\ tasks' = [tasks EXCEPT ![c] =
                    [@ EXCEPT !.ctx = ctx, !.given = ctx, !.ret = err,
                              !.pc = IF err = "nil" THEN "start" ELSE "rejected"]]
              /\ workers' = IF err = "nil" THEN workers \cup {name} ELSE workers
    /\ UNCHANGED <<daemonStopped, propVars, regVars, reqVars>>

\* runVM, lines 114-122: the VM context holds a clone of the state.
RunVMStart(c) ==
    /\ tasks[c].pc = "start"
    /\ tasks' = [tasks EXCEPT ![c] =
          [@ EXCEPT !.pc = "loop",
                    !.vmctx = [Timestamp |-> tasks[c].ctx.Timestamp,
                               VariableState |-> Clone(tasks[c].ctx.VariableState),
                               i |-> 1,
                               TxBuilder |-> NewTxBuilder(tasks[c].ctx.Balances).txbuilder]]]
    /\ UNCHANGED <<daemonStopped, workers, propVars, regVars, reqVars>>

\* The state update the processor produces for one request.
ProcessorRun(vmctx, reqRef) ==
    [reqid |-> RequestId(reqRef), timestamp |-> Int64Zero, entropy |-> "none"]

\* A loop body that skips a request whose token is missing and goes on
\* with the next one, instead of leaving the loop.
RunVMLoopBodyContinue(t) ==
    LET reqRef == t.ctx.Requests[t.vmctx.i]
        e      == EraseColor(t.vmctx.TxBuilder, reqRef.tx, 1)
        su     == ProcessorRun(t.vmctx, reqRef)
    IN  IF e.err # "nil"
        THEN [t EXCEPT !.vmctx = [@ EXCEPT !.i = @ + 1]]
        ELSE [t EXCEPT !.stateUpdates = Append(@, su),
                       !.vmctx = [@ EXCEPT !.i = @ + 1,
                                           !.TxBuilder = e.txbuilder,
                                           !.VariableState = ApplyStateUpdate(@, su)]]

\* The body of the loop of runVM, lines 123-139, for request number
\* vmctx.i: burn the request token, or leave the loop (pc "batch") when
\* there is none; else run the processor and apply its state update.
RunVMLoopBody(t) ==
    LET reqRef == t.ctx.Requests[t.vmctx.i]
        e      == EraseColor(t.vmctx.TxBuilder, reqRef.tx, 1)
        su     == ProcessorRun(t.vmctx, reqRef)
    IN  IF e.err # "nil"
        THEN [t EXCEPT !.pc = "batch"]
        ELSE [t EXCEPT !.stateUpdates = Append(@, su),
                       !.vmctx = [@ EXCEPT !.i = @ + 1,
                                           !.TxBuilder = e.txbuilder,
                                           !.VariableState = ApplyStateUpdate(@, su)]]

\* One iteration of the loop of runVM.
RunVMRequest(c) ==
    /\ tasks[c].pc = "loop"
    /\ tasks[c].vmctx.i <= Len(tasks[c].ctx.Requests)
    /\ tasks' = [tasks EXCEPT ![c] = RunVMLoopBody(tasks[c])]
    /\ UNCHANGED <<daemonStopped, workers, propVars, regVars, reqVars>>

\* runVM after the loop, lines 140-155: the task as the code leaves it, the
\* error runVM returns, and whether ctx.OnFinish() was called.
FinalizeVM(ctx, stateUpdates) ==
    LET nb    == NewBatch(stateUpdates)
        batch == WithStateIndex(nb.batch, StateIndex(ctx.VariableState) + 1)
        ab    == ApplyBatch(ctx.VariableState, batch)
        rtx   == [stateIndex |-> StateIndex(ab.vs), stateHash |-> Hash(ab.vs)]
    IN  IF nb.err # "nil"
        THEN [ctx |-> [ctx EXCEPT !.ResultBatch = nb.batch],
              err |-> nb.err, called |-> FALSE]
        ELSE IF ab.err # "nil"
        THEN [ctx |-> [ctx EXCEPT !.ResultBatch = batch, !.VariableState = ab.vs],
              err |-> ab.err, called |-> FALSE]
        ELSE [ctx |-> [ctx EXCEPT !.ResultBatch = batch, !.VariableState = ab.vs,
                                  !.ResultTransaction = rtx],
              err |-> "nil", called |-> TRUE]

\* runVM after the loop and the end of the worker: an error of runVM is
\* written to ctx.Log, the callback is called only on success.
RunVMFinish(c) ==
    /\ \/ tasks[c].pc = "batch"
       \/ /\ tasks[c].pc = "loop"
          /\ tasks[c].vmctx.i > Len(tasks[c].ctx.Requests)
    /\ LET r == FinalizeVM(tasks[c].ctx, tasks[c].stateUpdates)
       IN  tasks' = [tasks EXCEPT ![c] =
              [@ EXCEPT !.pc = "done", !.ctx = r.ctx,
                        !.onFinish = IF r.called THEN OnFinish(@, "nil") ELSE @,
                        !.log = IF r.err # "nil" THEN Append(@, "runVM: " \o r.err) ELSE @]]
    /\ workers' = WorkerDone(VMTaskName(tasks[c].ctx))
    /\ UNCHANGED <<daemonStopped, propVars, regVars, reqVars>>

\* The plugin's worker receives the shutdown signal: vmDaemon.Shutdown().
VMShutdown ==
    /\ ~daemonStopped
    /\ daemonStopped' = TRUE
    /\ UNCHANGED <<workers, tasks, propVars, regVars, reqVars>>

NextVM ==
    \/ \E g \in VMRegCalls : RegisterProcessor(g)
    \/ \E g \in VMRegCalls : RegisterProcessorRun(g)
    \/ \E g \in VMRegCalls : RegisterProcessorFinish(g)
    \/ \E c \in VMCtxs : VMRunComputationsAsync(c)
    \/ \E c \in VMCtxs : RunVMStart(c)
    \/ \E c \in VMCtxs : RunVMRequest(c)
    \/ \E c \in VMCtxs : RunVMFinish(c)
    \/ VMShutdown

SpecVM == InitVM /\ [][NextVM]_vars

\* Largest number of RegisterProcessor calls in a run of the registry alone.
MaxRegCalls == 3

\* The RegisterProcessor calls of a run of the registry alone.
RegCalls == 1..MaxRegCalls

\* The registry on its own: concurrent RegisterProcessor calls, no task.
InitRegistry ==
    /\ daemonStopped = FALSE
    /\ workers = {}
    /\ tasks = <<>>
    /\ processors = {}
    /\ regs = [g \in RegCalls |-> IdleReg]
    /\ tx = NoTransaction
    /\ props = NotComputed
    /\ req = IdleRequest

NextRegistry ==
    \/ \E g \in RegCalls : RegisterProcessor(g)
    \/ \E g \in RegCalls : RegisterProcessorRun(g)
    \/ \E g \in RegCalls : RegisterProcessorFinish(g)

SpecRegistry == InitRegistry /\ [][NextRegistry]_vars

(***************************************************************************)
(* Claims about the VM plugin (checked under SpecVM)                       *)
(***************************************************************************)

\* EraseColor fails for request number i of the task as submitted: the
\* requests up to i need more tokens of its colour than the chain holds.
EraseFails(in, i) ==
    Cardinality({j \in 1..i : in.Requests[j].tx = in.Requests[i].tx})
        > in.Balances.req[in.Requests[i].tx]

\* EraseColor fails for the first time at request number k.
FirstFailureAt(in, k) ==
    /\ k \in 1..Len(in.Requests)
    /\ EraseFails(in, k)
    /\ \A j \in 1..(k - 1) : ~EraseFails(in, j)

\* C5: a task with zero requests is turned down when it is submitted: an
\* error is returned, no worker is registered, and the result fields and
\* the virtual state stay as the caller gave them.
C5_EmptyBatchRejected ==
    \A c \in DOMAIN tasks :
        (tasks[c].pc # "idle" /\ Len(tasks[c].given.Requests) = 0) =>
            /\ tasks[c].pc = "rejected"
            /\ tasks[c].ret \notin {"nil", "none"}
            /\ tasks[c].ctx = tasks[c].given

\* C6: when EraseColor first fails at request k >= 2, the processor runs
\* for r1..r(k-1) only, the batch holds exactly their state updates in
\* request order, and the run ends without an error, calling the callback.
C6_Truncation ==
    \A c \in DOMAIN tasks :
        \A k \in 2..MaxVMRequests :
            (tasks[c].pc \in {"loop", "batch", "done"} /\ FirstFailureAt(tasks[c].given, k)) =>
                /\ Len(tasks[c].stateUpdates) <= k - 1
                /\ tasks[c].pc = "done" =>
                      /\ tasks[c].ctx.ResultBatch # NilBatch
                      /\ [i \in 1..Size(tasks[c].ctx.ResultBatch) |->
                              tasks[c].ctx.ResultBatch.updates[i].reqid]
                            = [i \in 1..(k - 1) |-> RequestId(tasks[c].given.Requests[i])]
                      /\ tasks[c].ctx.ResultBatch.updates = tasks[c].stateUpdates
                      /\ tasks[c].onFinish = <<"nil">>
                      /\ tasks[c].log = <<>>

\* C6 witness: a run of three requests whose third EraseColor failed ended.
C6_Witness ==
    \E c \in DOMAIN tasks :
        /\ tasks[c].pc = "done"
        /\ Len(tasks[c].given.Requests) = 3
        /\ FirstFailureAt(tasks[c].given, 3)
        /\ Size(tasks[c].ctx.ResultBatch) = 2

\* C7: a run that produced no state update (EraseColor failed for the first
\* request) ends with one call of the callback, carrying an error.
C7_ZeroUpdatesReported ==
    \A c \in DOMAIN tasks :
        (tasks[c].pc = "done" /\ FirstFailureAt(tasks[c].given, 1)) =>
            /\ Len(tasks[c].onFinish) = 1
            /\ tasks[c].onFinish[1] # "nil"

\* C18: a run never changes the virtual state object handed in with the
\* task: from submission on, through every step of the run and after its
\* end, its state index and its hash are those it had at submission.
C18_InputStateNotMutated ==
    \A c \in DOMAIN tasks :
        tasks[c].pc # "idle" =>
            /\ StateIndex(tasks[c].ctx.VariableState)
                  = StateIndex(tasks[c].given.VariableState)
            /\ Hash(tasks[c].ctx.VariableState) = Hash(tasks[c].given.VariableState)

(***************************************************************************)
(* Claims about the processor registry (checked under SpecRegistry)        *)
(***************************************************************************)

\* Some RegisterProcessor(h) call has completed with onFinish(nil).
RegisteredOk(h) ==
    \E g \in DOMAIN regs :
        /\ regs[g].pc = "done"
        /\ regs[g].programHash = h
        /\ regs[g].onFinish = <<"nil">>

\* C17: whenever getProcessor can take its read lock, getProcessor(h)
\* returns a processor exactly when some RegisterProcessor(h) has completed
\* successfully; a registration that ended with an error has left no entry
\* for its hash in the map; and a RegisterProcessor call has called its
\* onFinish once when its goroutine is done and never before.
C17_RegistryVisibility ==
    /\ RLockFree =>
          \A h \in ProgramHashes :
              (getProcessor(h).err = "nil") <=> RegisteredOk(h)
    /\ \A g \in DOMAIN regs :
          /\ (regs[g].pc = "done" /\ regs[g].onFinish # <<"nil">>) =>
                regs[g].programHash \notin processors
          /\ Len(regs[g].onFinish) = IF regs[g].pc = "done" THEN 1 ELSE 0

\* C17 witness: one registration of sc1 has completed, a registration of an
\* unimplemented program has failed, and a third one holds the write lock.
C17_Witness ==
    /\ \E g \in DOMAIN regs : regs[g].pc = "done" /\ regs[g].onFinish = <<"nil">>
    /\ \E g \in DOMAIN regs : regs[g].pc = "done" /\ regs[g].onFinish = <<"VM not implemented">>
    /\ \E g \in DOMAIN regs : regs[g].pc = "finishing"
    /\ getProcessor("sc1").err = "nil"
    /\ getProcessor("sc2").err = "no such processor"

(***************************************************************************)
(* Part 4.  packages/apilib/request.go                                     *)
(***************************************************************************)

\* Largest number of request blocks in one CreateRequestTransaction call.
MaxBlockParams == 2

\* Largest number of tokens the node reports for the sender's address.
MaxFunds == 2

\* par.SenderSigScheme.Address()
SenderAddress == "s1"

\* The dynamic types of the values of RequestBlockParams.Vars that the type
\* switch of convertArgs names.
RecognizedTypes ==
    {"int", "byte", "int16", "int32", "int64", "uint16", "uint32", "uint64",
     "string", "[]byte", "*hashing.HashValue", "*address.Address",
     "*balance.Color"}

\* Dynamic types the switch does not name.
UnrecognizedTypes == {"bool"}

\* RequestBlockParams.Vars: key -> dynamic type of the value.  No variables,
\* two recognized ones, and maps with a value of an unrecognized type.
VarMaps ==
    {<<>>,
     [k \in {"k1", "k2"} |-> IF k = "k1" THEN "int" ELSE "string"],
     [k \in {"k1", "k2"} |-> IF k = "k1" THEN "int" ELSE "bool"],
     [k \in {"k1"} |-> "bool"]}

\* The kv.Map convertArgs gives up with.
NilArgs == [nil |-> TRUE]

\* The codec call of each case of the switch of convertArgs.
EncodedAs(type) ==
    IF type \in {"int", "byte", "int16", "int32", "int64", "uint16", "uint32", "uint64"}
    THEN "SetInt64"
    ELSE IF type = "string" THEN "SetString"
    ELSE IF type = "*hashing.HashValue" THEN "SetHashValue"
    ELSE "Set"

\* convertArgs(vars), with varsMap for its parameter vars: nil as soon as one value has an unrecognized type,
\* whatever the iteration order of the map.
convertArgs(varsMap) ==
    IF \E k \in DOMAIN varsMap : varsMap[k] \notin RecognizedTypes
    THEN NilArgs
    ELSE [k \in DOMAIN varsMap |-> EncodedAs(varsMap[k])]

\* One RequestBlockParams value; Transfer is the number of tokens sent along.
RequestBlockParamsSet ==
    [TargetSCAddress : Addresses, Vars : VarMaps, Transfer : 0..1]

\* The CreateRequestTransactionParams values of the model.
CreateRequestTransactionParams ==
    [BlockParams : SeqUpTo(RequestBlockParamsSet, MaxBlockParams),
     Post : BOOLEAN, WaitForConfirmation : BOOLEAN, WaitForCompletion : BOOLEAN]

\* What the node and the publisher answer during one call.
Environments ==
    [getOk : BOOLEAN, funds : 0..MaxFunds, buildOk : BOOLEAN,
     postOk : BOOLEAN, subscribeOk : BOOLEAN, patternsOk : BOOLEAN]

\* txbuilder.NewFromOutputBalances(allOuts): needs something to spend.
NewFromOutputBalances(funds) ==
    IF funds = 0 THEN [err |-> "NewFromOutputBalances: no balances"]
    ELSE [err |-> "nil", txb |-> [funds |-> funds, blocks |-> <<>>]]

\* txb.AddRequestBlockWithTransfer(reqBlk, target, transfer): mints the
\* request token to the target and moves the transfer, out of the funds.
AddRequestBlockWithTransfer(txb, reqBlk, transfer) ==
    IF txb.funds < 1 + transfer
    THEN [err |-> "not enough funds", txb |-> txb]
    ELSE [err |-> "nil",
          txb |-> [funds |-> txb.funds - (1 + transfer),
                   blocks |-> Append(txb.blocks, reqBlk)]]

\* One step of CreateRequestTransaction: the function called and whether
\* it succeeded.
Step(call, ok) == [call |-> call, ok |-> ok]

\* The calls that go to the node client or to the publisher.
ExternalCalls ==
    {"GetConfirmedAccountOutputs", "PostTransaction", "SubscribeMulti",
     "PostAndWaitForConfirmation", "WaitForPatterns", "Close"}

\* The names of the external calls among the steps, in order.
CallsOf(steps) ==
    LET IsExternal(st) == st.call \in ExternalCalls
        sel == SelectSeq(steps, IsExternal)
    IN  [i \in DOMAIN sel |-> sel[i].call]

\* The loop over par.BlockParams, lines 51-65, from block i on; steps are
\* the steps taken before.
RECURSIVE AddRequestBlocks(_, _, _, _)
AddRequestBlocks(txb, blockParams, i, steps) ==
    IF i > Len(blockParams) THEN [err |-> "nil", txb |-> txb, steps |-> steps]
    ELSE LET blockPar  == blockParams[i]
             args      == convertArgs(blockPar.Vars)
             converted == Append(steps, Step("convertArgs", args # NilArgs))
             reqBlk    == [target |-> blockPar.TargetSCAddress, args |-> args]
             r         == AddRequestBlockWithTransfer(txb, reqBlk, blockPar.Transfer)
             added     == Append(converted,
                                 Step("AddRequestBlockWithTransfer", r.err = "nil"))
         IN  IF args = NilArgs
             THEN [err |-> "wrong arguments", txb |-> txb, steps |-> converted]
             ELSE IF r.err # "nil"
             THEN [err |-> r.err, txb |-> r.txb, steps |-> added]
             ELSE AddRequestBlocks(r.txb, blockParams, i + 1, added)

\* The addresses of the sequence s, each once, in order of first occurrence.
RECURSIVE DistinctInOrder(_)
DistinctInOrder(s) ==
    IF s = <<>> THEN <<>>
    ELSE LET init == DistinctInOrder(SubSeq(s, 1, Len(s) - 1))
             last == s[Len(s)]
         IN  IF \E i \in DOMAIN init : init[i] = last THEN init ELSE Append(init, last)

\* txb.Build(false) and tx.Sign: one input address, one minted request token
\* per request block at its target, no state block.
BuildTransaction(txb) ==
    LET targets == [i \in DOMAIN txb.blocks |-> txb.blocks[i].target]
        addrs   == DistinctInOrder(targets)
    IN  [inputs   |-> <<SenderAddress>>,
         outputs  |-> [i \in DOMAIN addrs |->
                         [addr |-> addrs[i],
                          bals |-> [c \in Colors |->
                                      IF c = ColorNew
                                      THEN Cardinality({j \in DOMAIN targets :
                                                           targets[j] = addrs[i]})
                                      ELSE 0]]],
         state    |-> NoStateBlock,
         requests |-> targets]

\* What CreateRequestTransaction returns and the steps it took on the way.
Returns(t, err, steps) == [tx |-> t, err |-> err, steps |-> steps]

\* Lines 82-115: the transaction is built and checked; post it as asked.
PostAsAsked(par, env, t, steps) ==
    IF ~par.Post THEN Returns(t, "nil", steps)
    ELSE IF ~par.WaitForConfirmation
    THEN LET posted == Append(steps, Step("PostTransaction", env.postOk))
         IN  IF ~env.postOk
             THEN Returns(NilTransaction, "PostTransaction", posted)
             ELSE Returns(t, "nil", posted)
    ELSE
    LET subscribed == IF par.WaitForCompletion
                      THEN Append(steps, Step("SubscribeMulti", env.subscribeOk))
                      ELSE steps
        posted     == Append(subscribed, Step("PostAndWaitForConfirmation", env.postOk))
        waited     == Append(posted, Step("WaitForPatterns", env.patternsOk))
        close(cs)  == IF par.WaitForCompletion
                      THEN Append(cs, Step("Close", TRUE)) ELSE cs
    IN  IF par.WaitForCompletion /\ ~env.subscribeOk
        THEN Returns(NilTransaction, "SubscribeMulti", subscribed)
        ELSE IF ~env.postOk
        THEN Returns(NilTransaction, "PostAndWaitForConfirmation", close(posted))
        ELSE IF ~par.WaitForCompletion THEN Returns(t, "nil", posted)
        ELSE IF ~env.patternsOk
        THEN Returns(NilTransaction, "didn't receive completion message", close(waited))
        ELSE Returns(t, "nil", close(waited))

\* A CreateRequestTransaction that drops the result of the semantic check
\* and goes on to post the transaction.
CreateRequestTransactionRunUnchecked(par, env) ==
    LET got     == <<Step("GetConfirmedAccountOutputs", env.getOk)>>
        nb      == NewFromOutputBalances(env.funds)
        started == Append(got, Step("NewFromOutputBalances", nb.err = "nil"))
        added   == AddRequestBlocks(nb.txb, par.BlockParams, 1, started)
        built   == Append(added.steps, Step("Build", env.buildOk))
        t       == BuildTransaction(added.txb)
        pr      == calcProperties(t)
        checked == Append(built, Step("Properties", pr.err = "nil"))
    IN  IF ~env.getOk
        THEN Returns(NilTransaction, "can't get outputs from the node", got)
        ELSE IF nb.err # "nil" THEN Returns(NilTransaction, nb.err, started)
        ELSE IF added.err # "nil" THEN Returns(NilTransaction, added.err, added.steps)
        ELSE IF ~env.buildOk THEN Returns(NilTransaction, "Build", built)
        ELSE PostAsAsked(par, env, t, checked)

\* CreateRequestTransaction(par) in the environment env.
CreateRequestTransactionRun(par, env) ==
    LET got     == <<Step("GetConfirmedAccountOutputs", env.getOk)>>
        nb      == NewFromOutputBalances(env.funds)
        started == Append(got, Step("NewFromOutputBalances", nb.err = "nil"))
        added   == AddRequestBlocks(nb.txb, par.BlockParams, 1, started)
        built   == Append(added.steps, Step("Build", env.buildOk))
        t       == BuildTransaction(added.txb)
        pr      == calcProperties(t)
        checked == Append(built, Step("Properties", pr.err = "nil"))
    IN  IF ~env.getOk
        THEN Returns(NilTransaction, "can't get outputs from the node", got)
        ELSE IF nb.err # "nil" THEN Returns(NilTransaction, nb.err, started)
        ELSE IF added.err # "nil" THEN Returns(NilTransaction, added.err, added.steps)
        ELSE IF ~env.buildOk THEN Returns(NilTransaction, "Build", built)
        ELSE IF pr.err # "nil" THEN Returns(NilTransaction, pr.err, checked)
        ELSE PostAsAsked(par, env, t, checked)

InitRequest ==
    /\ req = IdleRequest
    /\ tx = NoTransaction
    /\ props = NotComputed
    /\ daemonStopped = FALSE
    /\ workers = {}
    /\ tasks = <<>>
    /\ processors = {}
    /\ regs = <<>>

\* One call of CreateRequestTransaction, from entry to return.
CreateRequestTransaction ==
    /\ req.pc = "idle"
    /\ \E par \in CreateRequestTransactionParams, env \in Environments :
          LET r == CreateRequestTransactionRun(par, env)
          IN  req' = [pc |-> "done", par |-> par, calls |-> CallsOf(r.steps),
                      steps |-> r.steps, tx |-> r.tx, err |-> r.err]
    /\ UNCHANGED <<propVars, runVars, regVars>>

NextRequest == CreateRequestTransaction

SpecRequest == InitRequest /\ [][NextRequest]_vars

(***************************************************************************)
(* Claims about CreateRequestTransaction (checked under SpecRequest)       *)
(***************************************************************************)

\* Some request block of par carries a value of an unrecognized type.
HasInvalidArgument(par) ==
    \E i \in DOMAIN par.BlockParams :
        \E k \in DOMAIN par.BlockParams[i].Vars :
            par.BlockParams[i].Vars[k] \in UnrecognizedTypes

\* C16: a call whose request blocks carry a value of an unrecognized type
\* returns an error and no transaction, and has made no call to the node
\* client nor to the notification subscription.
C16_InvalidArgumentBeforeLedger ==
    (req.pc = "done" /\ HasInvalidArgument(req.par)) =>
        /\ req.err # "nil"
        /\ req.tx = NilTransaction
        /\ req.calls = <<>>

\* The steps of the call that hand the transaction to the node client.
Posts == {i \in DOMAIN req.steps :
             req.steps[i].call \in {"PostTransaction", "PostAndWaitForConfirmation"}}

\* Step number i of the call is a successful call of the function named.
Succeeded(i, call) ==
    i \in DOMAIN req.steps /\ req.steps[i] = [call |-> call, ok |-> TRUE]

\* C21: the transaction is posted at most once per call, and only after a
\* successful Build followed by a successful Properties() check; with
\* Post = false nothing is posted; where the completion of the requests is
\* waited for (Post, WaitForConfirmation and WaitForCompletion all set) the
\* subscription was opened successfully before the post; and when any step
\* failed the call returns an error and no transaction, a transaction being
\* returned exactly when the error is nil.
C21_ValidateBeforePost ==
    req.pc = "done" =>
        /\ Cardinality(Posts) <= 1
        /\ \A i \in Posts :
              \E b, c \in 1..(i - 1) :
                  b < c /\ Succeeded(b, "Build") /\ Succeeded(c, "Properties")
        /\ ~req.par.Post => Posts = {}
        /\ (req.par.Post /\ req.par.WaitForConfirmation /\ req.par.WaitForCompletion) =>
              \A i \in Posts :
                  /\ req.steps[i].call = "PostAndWaitForConfirmation"
                  /\ \E j \in 1..(i - 1) : Succeeded(j, "SubscribeMulti")
        /\ (\E i \in DOMAIN req.steps : ~req.steps[i].ok) =>
              (req.err # "nil" /\ req.tx = NilTransaction)
        /\ req.err = "nil" <=> req.tx # NilTransaction
        /\ req.err = "nil" => \A i \in DOMAIN req.steps : req.steps[i].ok

\* C21 witness: a call that waits for completion was posted after the
\* subscription was opened and then timed out waiting for the completion
\* message; it returned an error and no transaction.
C21_Witness ==
    /\ req.pc = "done"
    /\ req.par.Post /\ req.par.WaitForConfirmation /\ req.par.WaitForCompletion
    /\ Len(req.par.BlockParams) = 2
    /\ req.calls = <<"GetConfirmedAccountOutputs", "SubscribeMulti",
                     "PostAndWaitForConfirmation", "WaitForPatterns", "Close">>
    /\ req.err = "didn't receive completion message"
    /\ req.tx = NilTransaction

====
